---- MODULE Spec2Model ----
(***************************************************************************)
(* A model of the boxing ring (boxing/models/ring_model.py) and of the     *)
(* part of the boxer repository it uses (boxing/models/boxers_model.py).   *)
(*                                                                         *)
(* Python floats are modelled in fixed point: skills and their difference  *)
(* in tenths (reach is a whole number of inches, so weight*len(name) +     *)
(* reach/10 + age_modifier is a whole number of tenths), probabilities and *)
(* random draws in units of 1/Scale.                                       *)
(***************************************************************************)
EXTENDS Integers, Sequences, FiniteSets, TLC

VARIABLES
    ring,     \* RingModel.ring: the list of objects in the ring
    db,       \* the boxers table: id -> [fights, wins], for the rows present
    alias,    \* TRUE once a caller holds the list get_boxers returned
    op,       \* the last call made
    inp,      \* its arguments and the environment's choices (random draw, db health)
    err,      \* the exception it raised, or "None"
    ret,      \* the value it returned, or "None"
    pre,      \* ring and db as they were when the call started
    loc,      \* fight's local variables at the point the call ended
    weight,   \* the weight handed to get_weight_class / Boxer(...)
    wc_ret,   \* what get_weight_class(weight) returned or raised
    boxer     \* the Boxer that Boxer(weight=weight, ...) constructed

vars == <<ring, db, alias, op, inp, err, ret, pre, loc, weight, wc_ret, boxer>>

----------------------------------------------------------------------------
(* Bounds *)

MaxFights == 3          \* sum of the fights columns the model lets accumulate
MaxWeight == 220        \* weights 0..MaxWeight are classified
MaxAliasLen == 3        \* longest list a holder of the aliased list builds
ExpCutoff == 100        \* e^(-x/10) is 0 in fixed point beyond this many tenths

Scale == 100 * 100      \* fixed-point unit of probabilities and random draws
ExpTenth == 9048        \* e^(-0.1) in units of 1/Scale

----------------------------------------------------------------------------
(* Values *)

None == "None"

Ann == [type |-> "Boxer", id |-> 1, name |-> "Ann", weight |-> 180, reach |-> 70, age |-> 30]
Bob == [type |-> "Boxer", id |-> 2, name |-> "Bob", weight |-> 180, reach |-> 90, age |-> 38]
Cat == [type |-> "Boxer", id |-> 3, name |-> "Cat", weight |-> 180, reach |-> 85, age |-> 20]

Boxers == {Ann, Bob, Cat}

\* Arguments that are not Boxer instances: a str has no attribute `name`,
\* an arbitrary object (e.g. a SimpleNamespace) may have one.
AStr == [type |-> "str", id |-> 0, name |-> "", weight |-> 0, reach |-> 0, age |-> 0]
ANamed == [type |-> "SimpleNamespace", id |-> 0, name |-> "Zed", weight |-> 0, reach |-> 0, age |-> 0]

NonBoxers == {AStr, ANamed}

Ids == {b.id : b \in Boxers}

UnknownId == 1 + Cardinality(Ids)

Randoms == {0, 4000, 4999, 5000, 6000, 9999}

Results == {"win", "loss", "draw"}

NoLoc == [reached |-> FALSE, winner |-> AStr, loser |-> AStr,
          normalized_delta |-> 0, random_number |-> 0]

NoBoxer == [ok |-> FALSE, weight |-> -1, weight_class |-> None]

NoInp == [arg |-> AStr, r |-> 0, ok1 |-> TRUE, ok2 |-> TRUE, id |-> 0, result |-> ""]

----------------------------------------------------------------------------
(* boxers_model.py *)

isinstance_Boxer(x) == x.type = "Boxer"

hasattr_name(x) == x.type # "str"

\* get_weight_class with every threshold exclusive (> for >=)
get_weight_class_exclusive(w) ==
    IF w > 203 THEN "HEAVYWEIGHT"
    ELSE IF w > 166 THEN "MIDDLEWEIGHT"
    ELSE IF w > 133 THEN "LIGHTWEIGHT"
    ELSE IF w > 125 THEN "FEATHERWEIGHT"
    ELSE "ValueError"

get_weight_class(w) ==
    IF w >= 203 THEN "HEAVYWEIGHT"
    ELSE IF w >= 166 THEN "MIDDLEWEIGHT"
    ELSE IF w >= 133 THEN "LIGHTWEIGHT"
    ELSE IF w >= 125 THEN "FEATHERWEIGHT"
    ELSE "ValueError"

\* Boxer.__post_init__: the constructed value, or the error get_weight_class raised
Boxer_post_init(w) ==
    LET c == get_weight_class(w) IN
    IF c = "ValueError" THEN [ok |-> FALSE, weight |-> w, weight_class |-> None]
    ELSE [ok |-> TRUE, weight |-> w, weight_class |-> c]

\* update_boxer_stats whose 'loss' branch runs the wrong UPDATE (wins for fights)
update_boxer_stats_loss_as_win(d, id, result, dbOk) ==
    IF result \notin {"win", "loss"} THEN [db |-> d, err |-> "ValueError"]
    ELSE IF ~dbOk THEN [db |-> d, err |-> "sqlite3.Error"]
    ELSE IF id \notin DOMAIN d THEN [db |-> d, err |-> "ValueError"]
    ELSE IF result = "win"
         THEN [db |-> [d EXCEPT ![id] = [fights |-> @.fights + 1, wins |-> @.wins + 1]],
               err |-> None]
         ELSE [db |-> [d EXCEPT ![id] = [fights |-> @.fights, wins |-> @.wins + 1]],
               err |-> None]

\* update_boxer_stats(boxer_id, result); dbOk = FALSE: the connection raises sqlite3.Error
update_boxer_stats(d, id, result, dbOk) ==
    IF result \notin {"win", "loss"} THEN [db |-> d, err |-> "ValueError"]
    ELSE IF ~dbOk THEN [db |-> d, err |-> "sqlite3.Error"]
    ELSE IF id \notin DOMAIN d THEN [db |-> d, err |-> "ValueError"]
    ELSE IF result = "win"
         THEN [db |-> [d EXCEPT ![id] = [fights |-> @.fights + 1, wins |-> @.wins + 1]],
               err |-> None]
         ELSE [db |-> [d EXCEPT ![id] = [fights |-> @.fights + 1, wins |-> @.wins]],
               err |-> None]

\* delete_boxer(boxer_id)
delete_boxer(d, id, dbOk) ==
    IF ~dbOk THEN [db |-> d, err |-> "sqlite3.Error"]
    ELSE IF id \notin DOMAIN d THEN [db |-> d, err |-> "ValueError"]
    ELSE [db |-> [i \in DOMAIN d \ {id} |-> d[i]], err |-> None]

----------------------------------------------------------------------------
(* ring_model.py *)

Abs(x) == IF x < 0 THEN -x ELSE x

\* get_fighting_skill, in tenths
get_fighting_skill(b) ==
    LET age_modifier == IF b.age < 25 THEN -1 ELSE (IF b.age > 35 THEN -2 ELSE 0)
    IN  10 * (b.weight * Len(b.name)) + b.reach + 10 * age_modifier

\* math.e ** (-delta), delta given in tenths (>= 0), result in units of 1/Scale
RECURSIVE ExpNeg(_)
ExpNeg(t) ==
    IF t <= 0 THEN Scale
    ELSE IF t > ExpCutoff THEN 0
    ELSE (ExpNeg(t - 1) * ExpTenth) \div Scale

\* normalized_delta computed from the signed difference skill_1 - skill_2 (abs dropped)
normalized_delta_signed(skill_1, skill_2) ==
    LET delta == skill_1 - skill_2
    IN  IF delta >= 0
        THEN (Scale * Scale) \div (Scale + ExpNeg(delta))
        ELSE (Scale * ExpNeg(-delta)) \div (Scale + ExpNeg(-delta))

\* 1 / (1 + math.e ** (-delta)) for delta = abs(skill_1 - skill_2)
normalized_delta(skill_1, skill_2) ==
    LET delta == Abs(skill_1 - skill_2)
    IN  (Scale * Scale) \div (Scale + ExpNeg(delta))

\* the capacity test of enter_ring off by one, either way
RingIsFull_high(r) == Len(r) > 2

RingIsFull_low(r) == Len(r) >= 1

\* enter_ring, line 91
RingIsFull(r) == Len(r) >= 2

\* fight, line 36
NotEnoughBoxers(r) == Len(r) < 2

\* clear_ring
clear_ring(r) == IF r = <<>> THEN r ELSE <<>>

\* enter_ring(boxer): the ring afterwards and the exception raised
enter_ring(r, b) ==
    IF ~hasattr_name(b) THEN [ring |-> r, err |-> "AttributeError"]
    ELSE IF ~isinstance_Boxer(b) THEN [ring |-> r, err |-> "TypeError"]
    ELSE IF RingIsFull(r) THEN [ring |-> r, err |-> "ValueError"]
    ELSE [ring |-> Append(r, b), err |-> None]

\* the two updates of fight in the other order: the loser's first
fight_updates_loser_first(d, winner, loser, ok1, ok2) ==
    LET u2 == update_boxer_stats(d, loser.id, "loss", ok2)
        u1 == update_boxer_stats(u2.db, winner.id, "win", ok1)
    IN  IF u2.err # None THEN u2 ELSE u1

\* fight, lines 60-61: the winner's update, then the loser's; an exception
\* from the first call ends the fight before the second is made
fight_updates(d, winner, loser, ok1, ok2) ==
    LET u1 == update_boxer_stats(d, winner.id, "win", ok1)
        u2 == update_boxer_stats(u1.db, loser.id, "loss", ok2)
    IN  IF u1.err # None THEN u1 ELSE u2

\* fight, lines 40-66: from unpacking the two boxers to the return
fight_body(r, d, random_number, ok1, ok2) ==
    IF Len(r) # 2
    THEN [ring |-> r, db |-> d, err |-> "ValueError", ret |-> None, loc |-> NoLoc]
    ELSE
    LET boxer_1 == r[1]
        boxer_2 == r[2]
        nd == normalized_delta(get_fighting_skill(boxer_1), get_fighting_skill(boxer_2))
        winner == IF random_number < nd THEN boxer_1 ELSE boxer_2
        loser == IF random_number < nd THEN boxer_2 ELSE boxer_1
        l == [reached |-> TRUE, winner |-> winner, loser |-> loser,
              normalized_delta |-> nd, random_number |-> random_number]
        u == fight_updates(d, winner, loser, ok1, ok2)
    IN  IF u.err # None
        THEN [ring |-> r, db |-> u.db, err |-> u.err, ret |-> None, loc |-> l]
        ELSE [ring |-> clear_ring(r), db |-> u.db, err |-> None,
              ret |-> winner.name, loc |-> l]

\* fight that clears the ring before it reports too few boxers
fight_clears_on_failure(r, d, random_number, ok1, ok2) ==
    IF NotEnoughBoxers(r)
    THEN [ring |-> clear_ring(r), db |-> d, err |-> "ValueError", ret |-> None, loc |-> NoLoc]
    ELSE fight_body(r, d, random_number, ok1, ok2)

\* fight
fight(r, d, random_number, ok1, ok2) ==
    IF NotEnoughBoxers(r)
    THEN [ring |-> r, db |-> d, err |-> "ValueError", ret |-> None, loc |-> NoLoc]
    ELSE fight_body(r, d, random_number, ok1, ok2)

----------------------------------------------------------------------------
(* The calls *)

RECURSIVE SumFights(_, _)
SumFights(d, S) ==
    IF S = {} THEN 0
    ELSE LET i == CHOOSE x \in S : TRUE IN d[i].fights + SumFights(d, S \ {i})

TotalFights(d) == SumFights(d, DOMAIN d)

Snapshot == [ring |-> ring, db |-> db]

WeightUnchanged == UNCHANGED <<weight, wc_ret, boxer>>

Init ==
    /\ ring = <<>>
    /\ db = [i \in Ids |-> [fights |-> 0, wins |-> 0]]
    /\ alias = FALSE
    /\ op = "__init__"
    /\ inp = NoInp
    /\ err = None
    /\ ret = None
    /\ pre = [ring |-> <<>>, db |-> [i \in Ids |-> [fights |-> 0, wins |-> 0]]]
    /\ loc = NoLoc
    /\ weight = 0
    /\ wc_ret = None
    /\ boxer = NoBoxer

CallEnterRing ==
    \E b \in Boxers \cup NonBoxers :
        LET o == enter_ring(ring, b) IN
        /\ ring' = o.ring
        /\ err' = o.err
        /\ ret' = None
        /\ op' = "enter_ring"
        /\ inp' = [NoInp EXCEPT !.arg = b]
        /\ pre' = Snapshot
        /\ loc' = NoLoc
        /\ UNCHANGED <<db, alias>>
        /\ WeightUnchanged

CallClearRing ==
    /\ ring' = clear_ring(ring)
    /\ err' = None
    /\ ret' = None
    /\ op' = "clear_ring"
    /\ inp' = NoInp
    /\ pre' = Snapshot
    /\ loc' = NoLoc
    /\ UNCHANGED <<db, alias>>
    /\ WeightUnchanged

CallGetBoxers ==
    /\ alias' = TRUE
    /\ ret' = "self.ring"
    /\ err' = None
    /\ op' = "get_boxers"
    /\ inp' = NoInp
    /\ pre' = Snapshot
    /\ loc' = NoLoc
    /\ UNCHANGED <<ring, db>>
    /\ WeightUnchanged

CallFight ==
    \E r \in Randoms, ok1 \in BOOLEAN, ok2 \in BOOLEAN :
        LET o == fight(ring, db, r, ok1, ok2) IN
        /\ (Len(ring) >= 2 => TotalFights(db) + 2 <= MaxFights)
        /\ ring' = o.ring
        /\ db' = o.db
        /\ err' = o.err
        /\ ret' = o.ret
        /\ loc' = o.loc
        /\ op' = "fight"
        /\ inp' = [NoInp EXCEPT !.r = r, !.ok1 = ok1, !.ok2 = ok2]
        /\ pre' = Snapshot
        /\ UNCHANGED alias
        /\ WeightUnchanged

CallUpdateBoxerStats ==
    \E id \in Ids \cup {UnknownId}, result \in Results, ok \in BOOLEAN :
        LET o == update_boxer_stats(db, id, result, ok) IN
        /\ TotalFights(db) + 1 <= MaxFights
        /\ db' = o.db
        /\ err' = o.err
        /\ ret' = None
        /\ op' = "update_boxer_stats"
        /\ inp' = [NoInp EXCEPT !.id = id, !.result = result, !.ok1 = ok]
        /\ pre' = Snapshot
        /\ loc' = NoLoc
        /\ UNCHANGED <<ring, alias>>
        /\ WeightUnchanged

CallDeleteBoxer ==
    \E id \in Ids, ok \in BOOLEAN :
        LET o == delete_boxer(db, id, ok) IN
        /\ db' = o.db
        /\ err' = o.err
        /\ ret' = None
        /\ op' = "delete_boxer"
        /\ inp' = [NoInp EXCEPT !.id = id, !.ok1 = ok]
        /\ pre' = Snapshot
        /\ loc' = NoLoc
        /\ UNCHANGED <<ring, alias>>
        /\ WeightUnchanged

Next ==
    \/ CallEnterRing
    \/ CallClearRing
    \/ CallGetBoxers
    \/ CallFight
    \/ CallUpdateBoxerStats
    \/ CallDeleteBoxer

Spec == Init /\ [][Next]_vars

----------------------------------------------------------------------------
(* A caller that kept the list get_boxers returned: it is RingModel.ring      *)
(* itself (line 106 returns self.ring, and clear_ring empties that same list  *)
(* in place), so list methods called on it act on the ring.                   *)

ListAppend ==
    \E b \in Boxers :
        /\ alias
        /\ Len(ring) < MaxAliasLen
        /\ ring' = Append(ring, b)
        /\ err' = None
        /\ ret' = None
        /\ op' = "list.append"
        /\ inp' = [NoInp EXCEPT !.arg = b]
        /\ pre' = Snapshot
        /\ loc' = NoLoc
        /\ UNCHANGED <<db, alias>>
        /\ WeightUnchanged

ListPop ==
    /\ alias
    /\ ring # <<>>
    /\ ring' = SubSeq(ring, 1, Len(ring) - 1)
    /\ err' = None
    /\ ret' = ring[Len(ring)].name
    /\ op' = "list.pop"
    /\ inp' = NoInp
    /\ pre' = Snapshot
    /\ loc' = NoLoc
    /\ UNCHANGED <<db, alias>>
    /\ WeightUnchanged

NextAlias ==
    \/ Next
    \/ ListAppend
    \/ ListPop

SpecAlias == Init /\ [][NextAlias]_vars

----------------------------------------------------------------------------
(* get_weight_class and the construction of a Boxer, over the weights         *)
(* 0..MaxWeight                                                               *)

Weights == 0 .. MaxWeight

RingUnchanged == UNCHANGED <<ring, db, alias, inp, err, ret, pre, loc>>

InitWC ==
    /\ ring = <<>>
    /\ db = [i \in Ids |-> [fights |-> 0, wins |-> 0]]
    /\ alias = FALSE
    /\ op = "__init__"
    /\ inp = NoInp
    /\ err = None
    /\ ret = None
    /\ pre = [ring |-> <<>>, db |-> [i \in Ids |-> [fights |-> 0, wins |-> 0]]]
    /\ loc = NoLoc
    /\ weight \in Weights
    /\ wc_ret = None
    /\ boxer = NoBoxer

CallGetWeightClass ==
    /\ wc_ret = None
    /\ wc_ret' = get_weight_class(weight)
    /\ op' = "get_weight_class"
    /\ UNCHANGED <<weight, boxer>>
    /\ RingUnchanged

ConstructBoxer ==
    /\ boxer = NoBoxer
    /\ boxer' = Boxer_post_init(weight)
    /\ op' = "Boxer"
    /\ UNCHANGED <<weight, wc_ret>>
    /\ RingUnchanged

NextWC ==
    \/ CallGetWeightClass
    \/ ConstructBoxer

SpecWC == InitWC /\ [][NextWC]_vars

----------------------------------------------------------------------------
(* Properties *)

Half == Scale \div 2

IsFight == op = "fight" /\ loc.reached

FirstBoxer == pre.ring[1]

SecondBoxer == pre.ring[2]

\* C1: whatever sequence of enter_ring, fight and clear_ring calls was made,
\* successful or failing, the ring holds 0, 1 or 2 boxers.
C1_RingSize == Len(ring) \in {0, 1, 2}

\* a third entry was refused and the ring holds two boxers
C1_Witness ==
    /\ op = "enter_ring"
    /\ err = "ValueError"
    /\ Len(ring) = 2

\* C2: fight() on a ring of 0 or 1 boxers raises ValueError, leaves the ring
\* as it was and changes no fight count and no win count.
C2_FightNotEnough ==
    (op = "fight" /\ Len(pre.ring) < 2) =>
        /\ err = "ValueError"
        /\ ring = pre.ring
        /\ db = pre.db

\* fight() was called on a ring holding one boxer
C2_Witness ==
    /\ op = "fight"
    /\ Len(pre.ring) = 1
    /\ err = "ValueError"
    /\ ring = pre.ring

\* C3 (as stated): after fight() returns successfully on a ring of two boxers
\* the ring is empty, each participant's fight count is exactly 1 higher, the
\* winner's win count is exactly 1 higher and the loser's win count is unchanged.
C3_FightStats ==
    (op = "fight" /\ err = None) =>
        /\ ring = <<>>
        /\ Len(pre.ring) = 2
        /\ db[FirstBoxer.id].fights = pre.db[FirstBoxer.id].fights + 1
        /\ db[SecondBoxer.id].fights = pre.db[SecondBoxer.id].fights + 1
        /\ db[loc.winner.id].wins = pre.db[loc.winner.id].wins + 1
        /\ db[loc.loser.id].wins = pre.db[loc.loser.id].wins

\* C4: enter_ring with a Boxer on a ring of 2 raises ValueError and the ring
\* holds the same 2 boxers in the same order; on a ring of 0 or 1 the boxer is
\* appended, so that one entry gives size 1 and a second gives size 2.
C4_EnterRing ==
    (op = "enter_ring" /\ isinstance_Boxer(inp.arg)) =>
        /\ Len(pre.ring) = 2 => (err = "ValueError" /\ ring = pre.ring)
        /\ Len(pre.ring) < 2 =>
              /\ err = None
              /\ ring = Append(pre.ring, inp.arg)
              /\ Len(ring) = Len(pre.ring) + 1

\* the second entry succeeded: the ring went from size 1 to size 2
C4_Witness ==
    /\ op = "enter_ring"
    /\ err = None
    /\ Len(pre.ring) = 1
    /\ Len(ring) = 2

\* C5 (as stated): enter_ring with an argument that is not a Boxer raises
\* TypeError, whatever the occupancy, and leaves the ring unchanged.
C5_InvalidType ==
    (op = "enter_ring" /\ ~isinstance_Boxer(inp.arg)) =>
        /\ err = "TypeError"
        /\ ring = pre.ring

\* C6: in a fight with draw r, boxer_1 wins exactly when r < normalized_delta
\* and boxer_2 otherwise; a successful fight returns the winner's name;
\* normalized_delta >= 0.5, so every r < 0.5 makes boxer_1 the winner; with
\* equal skills r = 0.4 gives boxer_1 and r = 0.6 gives boxer_2.
C6_Winner ==
    IsFight =>
        /\ inp.r < loc.normalized_delta => (loc.winner = FirstBoxer /\ loc.loser = SecondBoxer)
        /\ inp.r >= loc.normalized_delta => (loc.winner = SecondBoxer /\ loc.loser = FirstBoxer)
        /\ err = None => ret = loc.winner.name
        /\ loc.normalized_delta >= Half
        /\ inp.r < Half => loc.winner = FirstBoxer
        /\ get_fighting_skill(FirstBoxer) = get_fighting_skill(SecondBoxer) =>
              /\ loc.normalized_delta = Half
              /\ inp.r = 4000 => loc.winner = FirstBoxer
              /\ inp.r = 6000 => loc.winner = SecondBoxer

\* the more skilled boxer entered second and lost to a draw below 0.5
C6_Witness ==
    /\ IsFight
    /\ err = None
    /\ get_fighting_skill(SecondBoxer) > get_fighting_skill(FirstBoxer)
    /\ inp.r = 4999
    /\ ret = FirstBoxer.name
    /\ loc.loser = SecondBoxer

\* C7: the winner's update is committed before the loser's is attempted: when
\* the loser's update fails, fight raises that error, the winner's fight and
\* win counts are already 1 higher and the ring still holds both boxers; the
\* ring is emptied only when both updates succeeded.
WinnerUpdateOk == inp.ok1 /\ loc.winner.id \in DOMAIN pre.db

LoserUpdateFails == ~inp.ok2 \/ loc.loser.id \notin DOMAIN pre.db

C7_PartialFailure ==
    IsFight =>
        /\ (WinnerUpdateOk /\ LoserUpdateFails) =>
              /\ err = (IF inp.ok2 THEN "ValueError" ELSE "sqlite3.Error")
              /\ db[loc.winner.id].fights = pre.db[loc.winner.id].fights + 1
              /\ db[loc.winner.id].wins = pre.db[loc.winner.id].wins + 1
              /\ ring = pre.ring
              /\ Len(ring) = 2
        /\ err # None => ring = pre.ring
        /\ ring = <<>> => (err = None /\ WinnerUpdateOk /\ ~LoserUpdateFails)

\* the loser's row had been deleted: the fight failed after the winner's update
C7_Witness ==
    /\ IsFight
    /\ inp.ok1 /\ inp.ok2
    /\ loc.loser.id \notin DOMAIN pre.db
    /\ loc.winner.id \in DOMAIN db
    /\ err = "ValueError"
    /\ db[loc.winner.id].wins = pre.db[loc.winner.id].wins + 1
    /\ Len(ring) = 2

\* C8 (as stated): what get_boxers returns is a read-only view: nothing done
\* with it changes the ring, which changes only through enter_ring, clear_ring
\* and fight.
C8_ReadOnlyView ==
    op \notin {"enter_ring", "clear_ring", "fight"} => ring = pre.ring

\* C9: get_weight_class(w) is HEAVYWEIGHT for w >= 203, MIDDLEWEIGHT for
\* 166 <= w < 203, LIGHTWEIGHT for 133 <= w < 166, FEATHERWEIGHT for
\* 125 <= w < 133 and an error for w < 125; a constructed Boxer's weight_class
\* is that class of its weight.
ClassOf(w) ==
    CASE w >= 203 -> "HEAVYWEIGHT"
      [] w >= 166 /\ w < 203 -> "MIDDLEWEIGHT"
      [] w >= 133 /\ w < 166 -> "LIGHTWEIGHT"
      [] w >= 125 /\ w < 133 -> "FEATHERWEIGHT"
      [] w < 125 -> "ValueError"

C9_WeightClass ==
    /\ wc_ret # None => wc_ret = ClassOf(weight)
    /\ boxer # NoBoxer =>
          /\ boxer.weight = weight
          /\ boxer.ok <=> weight >= 125
          /\ boxer.ok => boxer.weight_class = ClassOf(weight)

\* a Boxer of 166 pounds was constructed and 166 was classified
C9_Witness ==
    /\ weight = 166
    /\ wc_ret = "MIDDLEWEIGHT"
    /\ boxer.ok
    /\ boxer.weight_class = "MIDDLEWEIGHT"

\* C10: from 0 fights and 0 wins, whatever calls are made (fights that fail
\* between their two updates included), every boxer's win count is at most its
\* fight count, and no call lowers either count.
C10_WinsAtMostFights ==
    \A i \in DOMAIN db :
        /\ db[i].wins <= db[i].fights
        /\ i \in DOMAIN pre.db =>
              /\ db[i].fights >= pre.db[i].fights
              /\ db[i].wins >= pre.db[i].wins

\* a fight failed between its two updates and left the winner's row updated
C10_Witness ==
    /\ IsFight
    /\ err # None
    /\ db # pre.db
    /\ db[loc.winner.id].wins = db[loc.winner.id].fights
    /\ db[loc.winner.id].wins >= 1

====
